---- MODULE Spec2Model ----
(***************************************************************************)
(* A model of lambda/lambda_function.py: the request handler               *)
(* lambda_handler with its two paths get_video_info and download_video.    *)
(* The extraction library (yt_dlp), the temporary-directory facility and   *)
(* the filesystem are the environment: their outcomes are drawn from small *)
(* sets.  Every invocation is a sequential process; its blocking calls are *)
(* the points at which other invocations may interleave.                   *)
(***************************************************************************)
EXTENDS Integers, Sequences, FiniteSets, TLC

\* A url string is built from at most MaxFrags fragments.
MaxFrags == 3
\* The number of invocations that run concurrently under SpecConc.
NumConc == 2

(***************************************************************************)
(* Python values.  A missing key is Absent; JSON null is None.  A url      *)
(* string is a sequence of characters, so that the substring test is a     *)
(* real search; the other strings are TLA+ strings.                        *)
(***************************************************************************)
Absent == [t |-> "absent"]
None == [t |-> "None"]
Str(s) == [t |-> "str", s |-> s]
Num(n) == [t |-> "int", n |-> n]

\* dict.get(key, default), lines 12-14, on the value stored under the key.
Get(v, default) == IF v = Absent THEN default ELSE v

\* Python truthiness of a value, as `not url` (line 16) and
\* `if event.get('body')` (line 11) use it.
Truthy(v) ==
  CASE v.t = "absent" -> FALSE
    [] v.t = "None" -> FALSE
    [] v.t = "int" -> v.n # 0
    [] v.t = "str" -> Len(v.s) # 0
    [] v.t = "json" -> v.doc.kind # "empty"

\* str(v) as an f-string renders it (line 75).
PyStr(v) ==
  CASE v.t = "None" -> "None"
    [] v.t = "int" -> ToString(v.n)
    [] v.t = "str" -> v.s

\* The markers of line 24.
YOUTUBE_COM == <<"y", "o", "u", "t", "u", "b", "e", ".", "c", "o", "m">>
YOUTU_BE == <<"y", "o", "u", "t", "u", ".", "b", "e">>

\* `m in s` on two strings: m occurs in s as a contiguous substring.
Contains(s, m) ==
  \E k \in 1..(Len(s) - Len(m) + 1) : SubSeq(s, k, k + Len(m) - 1) = m

(***************************************************************************)
(* The requests.                                                           *)
(***************************************************************************)
Fragments ==
  { <<"y", "o", "u", "t", "u">>, <<"b", "e">>, <<".", "b", "e">>,
    <<".", "c", "o", "m">> }

RECURSIVE Flatten(_)
Flatten(ss) == IF ss = <<>> THEN <<>> ELSE Head(ss) \o Flatten(Tail(ss))

UrlStrings ==
  { Flatten(ss) : ss \in UNION { [1..n -> Fragments] : n \in 0..MaxFrags } }

UrlValues == {Absent, None, Num(0), Num(5)} \cup { Str(s) : s \in UrlStrings }
ActionValues == {Absent, None, Str("info"), Str("download"), Str("delete")}
FormatValues == {Absent, None, Str("mp4"), Str("mp3"), Str("webm")}

Fields == [url : UrlValues, action : ActionValues, format : FormatValues]
NoFields == [url |-> Absent, action |-> Absent, format |-> Absent]
DownloadFields ==
  [url |-> Str(YOUTU_BE), action |-> Str("download"), format |-> Str("mp3")]

\* A string body is represented by the JSON document its text denotes.
JsonText(doc) == [t |-> "json", doc |-> doc]
Object(f) == [kind |-> "object", fields |-> f]

\* The event either carries its fields itself (body absent, null or the
\* empty string) or carries a string body, which is then the only thing read.
StructuredEvents ==
  [body : {Absent, None, JsonText([kind |-> "empty"])}, fields : Fields]
BodyEvents ==
  [body : {JsonText([kind |-> "malformed"]), JsonText([kind |-> "array"])}
            \cup { JsonText(Object(f)) : f \in Fields },
   fields : {NoFields, DownloadFields}]
Events == StructuredEvents \cup BodyEvents

\* The requests of the concurrent specification.
ConcEvents ==
  [body : {Absent},
   fields : { [url |-> Str(YOUTU_BE), action |-> Absent, format |-> Absent],
              DownloadFields }]

(***************************************************************************)
(* json.dumps and base64.b64encode, as far as the handler uses them.       *)
(***************************************************************************)
JsonStr(s) == "\"" \o s \o "\""
JsonNull == "null"
JsonNum(n) == ToString(n)

RECURSIVE JsonItems(_)
JsonItems(pairs) ==
  IF pairs = <<>> THEN ""
  ELSE JsonStr(Head(pairs)[1]) \o ": " \o Head(pairs)[2]
       \o (IF Tail(pairs) = <<>> THEN "" ELSE ", " \o JsonItems(Tail(pairs)))

\* json.dumps of a dict whose values are already rendered, in key order.
JsonDumps(pairs) == "{" \o JsonItems(pairs) \o "}"

B64Alphabet ==
  << "A", "B", "C", "D", "E", "F", "G", "H", "I", "J", "K", "L", "M",
     "N", "O", "P", "Q", "R", "S", "T", "U", "V", "W", "X", "Y", "Z",
     "a", "b", "c", "d", "e", "f", "g", "h", "i", "j", "k", "l", "m",
     "n", "o", "p", "q", "r", "s", "t", "u", "v", "w", "x", "y", "z",
     "0", "1", "2", "3", "4", "5", "6", "7", "8", "9", "+", "/" >>

B64Char(n) == B64Alphabet[n + 1]

\* base64.b64encode(file_data).decode('utf-8'), line 108.
RECURSIVE B64Encode(_)
B64Encode(bytes) ==
  IF Len(bytes) = 0 THEN ""
  ELSE IF Len(bytes) = 1 THEN
    B64Char(bytes[1] \div 4) \o B64Char((bytes[1] % 4) * 16) \o "=="
  ELSE IF Len(bytes) = 2 THEN
    B64Char(bytes[1] \div 4)
    \o B64Char((bytes[1] % 4) * 16 + bytes[2] \div 16)
    \o B64Char((bytes[2] % 16) * 4) \o "="
  ELSE
    B64Char(bytes[1] \div 4)
    \o B64Char((bytes[1] % 4) * 16 + bytes[2] \div 16)
    \o B64Char((bytes[2] % 16) * 4 + bytes[3] \div 64)
    \o B64Char(bytes[3] % 64)
    \o B64Encode(SubSeq(bytes, 4, Len(bytes)))

(***************************************************************************)
(* The response envelopes.                                                 *)
(***************************************************************************)
NoResponse == [statusCode |-> 0]
JsonHeaders == "Content-Type" :> "application/json"

Response(status, body) ==
  [statusCode |-> status, headers |-> JsonHeaders, body |-> body]

ErrorBody(msg) == JsonDumps(<< <<"error", JsonStr(msg)>> >>)

\* The three client-error returns of lambda_handler.
UrlRequired == Response(400, ErrorBody("URL is required"))
InvalidUrl == Response(400, ErrorBody("Invalid YouTube URL"))
InvalidAction == Response(400, ErrorBody("Invalid action"))

\* A faulty variant: the handler lets the exception escape instead of answering.
ExceptHandlerPropagates(e) == NoResponse

\* A faulty variant: the failure is reported as a client error.
ExceptHandlerClientError(e) == Response(400, ErrorBody(e))

\* except Exception as e, lines 42-47; e is str(e).
ExceptHandler(e) == Response(500, ErrorBody(e))

(***************************************************************************)
(* lambda_handler, lines 8-40: parsing, validation and dispatch.  The      *)
(* outcome is a return, a raise (caught at line 42) or a call of one of    *)
(* the two paths.                                                          *)
(***************************************************************************)
Return(r) == [kind |-> "return", response |-> r]
Raise(e) == [kind |-> "raise", exc |-> e]
Call(target, url, format_type) ==
  [kind |-> "call", target |-> target, url |-> url, format_type |-> format_type]

\* json.loads(event['body']), line 11.
JsonLoads(text) ==
  IF text.doc.kind = "malformed"
  THEN Raise("Expecting value: line 1 column 1 (char 0)")
  ELSE Return(text.doc)

\* Line 11: the parsed string body when the event has one, else the event.
ParseBody(e) ==
  IF Truthy(e.body) THEN JsonLoads(e.body) ELSE Return(Object(e.fields))

\* A faulty variant: a url is accepted only when it carries both markers.
HasMarkerBoth(url) == Contains(url, YOUTUBE_COM) /\ Contains(url, YOUTU_BE)

\* Line 24: 'youtube.com' in url or 'youtu.be' in url.
HasMarker(url) == Contains(url, YOUTUBE_COM) \/ Contains(url, YOUTU_BE)

\* A faulty variant: only a null url counts as missing.
UrlMissingNullOnly(url) == url = None

\* Line 16: not url.
UrlMissing(url) == ~Truthy(url)

\* A faulty variant: an unrecognized action falls through to the info path.
RouteDefaultInfo(action) ==
  IF action = Str("download") THEN "download" ELSE "info"

\* Lines 31-40: the dispatch on action.
Route(action) ==
  IF action = Str("info") THEN "info"
  ELSE IF action = Str("download") THEN "download"
  ELSE "invalid"

\* Lines 11-40.
Entry(e) ==
  LET parsed == ParseBody(e)
      body == parsed.response
  IN
  IF parsed.kind = "raise" THEN parsed
  ELSE IF body.kind # "object"
    THEN Raise("'list' object has no attribute 'get'")
  ELSE
    LET url == Get(body.fields.url, None)
        action == Get(body.fields.action, Str("info"))
        format_type == Get(body.fields.format, Str("mp4"))
    IN
    IF UrlMissing(url) THEN Return(UrlRequired)
    ELSE IF url.t = "int"
      THEN Raise("argument of type 'int' is not iterable")
    ELSE IF ~HasMarker(url.s) THEN Return(InvalidUrl)
    ELSE IF Route(action) = "invalid" THEN Return(InvalidAction)
    ELSE Call(Route(action), url, format_type)

(***************************************************************************)
(* get_video_info, lines 49-70.                                            *)
(***************************************************************************)
List(items) == [t |-> "list", items |-> items]

\* What extract_info may return: a full record, an empty one, or None.
InfoDicts ==
  { [title |-> Str("T"), thumbnail |-> Str("th"), duration |-> Num(120),
     uploader |-> Str("U"), view_count |-> Num(5),
     formats |-> List(<<1, 2, 3>>)],
    [title |-> Absent, thumbnail |-> Absent, duration |-> Absent,
     uploader |-> Absent, view_count |-> Absent, formats |-> Absent] }

\* The messages of the exceptions the library raises.
YdlErrors == {"ERROR: Video unavailable"}

JsonValue(v) ==
  CASE v.t = "None" -> JsonNull
    [] v.t = "int" -> JsonNum(v.n)
    [] v.t = "str" -> JsonStr(v.s)

\* Lines 51-54.
InfoOpts == [quiet |-> TRUE, no_warnings |-> TRUE]

\* A faulty variant: the metadata probe is made with download=True.
InfoCallDownloads(url) ==
  [op |-> "extract_info", url |-> url, download |-> TRUE, opts |-> InfoOpts]

\* Line 57: ydl.extract_info(url, download=False).
InfoCall(url) ==
  [op |-> "extract_info", url |-> url, download |-> FALSE, opts |-> InfoOpts]

\* Lines 59-70.
InfoResponse(info) ==
  Response(200, JsonDumps(<<
    <<"title", JsonValue(Get(info.title, Str("Unknown")))>>,
    <<"thumbnail", JsonValue(Get(info.thumbnail, None))>>,
    <<"duration", JsonValue(Get(info.duration, None))>>,
    <<"uploader", JsonValue(Get(info.uploader, None))>>,
    <<"view_count", JsonValue(Get(info.view_count, None))>>,
    <<"formats_available", JsonNum(Len(Get(info.formats, List(<<>>)).items))>>
  >>))

(***************************************************************************)
(* download_video, lines 72-118.                                           *)
(***************************************************************************)
\* The names tempfile may give a directory; NoDir is "no such directory".
Names == { <<"tmp", n>> : n \in 1..NumConc }
NoName == <<>>
\* A directory records, as history, the invocation that created it.
NoDir == [exists |-> FALSE, owner |-> 0, files |-> {}]
Dir(owner, files) == [exists |-> TRUE, owner |-> owner, files |-> files]

\* Line 75: the file name of output_path.
OutputName(format_type) == "video." \o PyStr(format_type)

\* Lines 77-93.
YdlOpts(temp_dir, format_type) ==
  IF format_type = Str("mp3")
  THEN [format |-> "bestaudio/best",
        outtmpl |-> <<temp_dir, OutputName(format_type)>>,
        postprocessors |-> <<[key |-> "FFmpegExtractAudio",
                              preferredcodec |-> "mp3",
                              preferredquality |-> "192"]>>,
        quiet |-> TRUE]
  ELSE [format |-> "best[ext=mp4]/best",
        outtmpl |-> <<temp_dir, OutputName(format_type)>>,
        postprocessors |-> <<>>,
        quiet |-> TRUE]

\* Line 96: ydl.download([url]).
DownloadCall(url, temp_dir, format_type) ==
  [op |-> "download", url |-> url, download |-> TRUE,
   opts |-> YdlOpts(temp_dir, format_type)]

\* Line 116.
ContentType(format_type) ==
  IF format_type = Str("mp4") THEN "video/mp4" ELSE "audio/mpeg"

\* Lines 110-118.
DownloadBody(file_base64, filename, content_type) ==
  JsonDumps(<< <<"file_data", JsonStr(file_base64)>>,
               <<"filename", JsonStr(filename)>>,
               <<"content_type", JsonStr(content_type)>> >>)

DownloadResponse(file_base64, filename, format_type) ==
  Response(200, DownloadBody(file_base64, filename, ContentType(format_type)))

\* The contents the media behind a url may have.
FileData == { <<77>>, <<77, 97>>, <<77, 97, 110, 33>> }

\* What a library call that does not raise leaves behind: nothing, the
\* file at outtmpl, or that file and a sidecar.
Written(i, format_type, data) ==
  LET main == [name |-> OutputName(format_type), data |-> data, writer |-> i]
      side == [name |-> "video.jpg", data |-> <<255>>, writer |-> i]
  IN { {}, {main}, {main, side} }

\* Writing files into a directory replaces the files of the same name.
WriteFiles(dir, new) ==
  { f \in dir : \A g \in new : g.name # f.name } \cup new

\* A faulty variant: a predictable directory name, taken whether it exists or not.
FreshNamesShared(f) == { <<"tmp", 1>> }

\* tempfile.TemporaryDirectory(), line 74: a name no directory has yet.
\* The names are interchangeable, so the first free one stands for any.
FreshNames(f) ==
  { d \in Names : ~f[d].exists /\ \A c \in Names : c[2] < d[2] => f[c].exists }

\* A faulty variant: the directory is left behind.
RemoveTreeLeaks(f, d) == f

\* TemporaryDirectory.__exit__: the directory and its files are removed.
RemoveTree(f, d) == [f EXCEPT ![d] = NoDir]

(***************************************************************************)
(* The state.  Every variable but fs is a function of the invocation.      *)
(***************************************************************************)
VARIABLES
  event,        \* the event the invocation was given
  pc,           \* where the invocation stands
  url,          \* lambda_handler's url, passed to the path taken
  format_type,  \* lambda_handler's format_type
  temp_dir,     \* download_video's temp_dir, NoName before line 74
  filename,     \* files[0], line 103
  pending,      \* what leaves the with block of line 74: a return or a raise
  response,     \* what lambda_handler returned, NoResponse before it returns
  fs,           \* the filesystem under the temporary root
  media,        \* the environment: the bytes of the media the urls point to
  raised,       \* history: str(e) of every exception raised in the invocation
  calls,        \* history: the calls made to the extraction library
  made,         \* history: the directories the invocation created
  listing,      \* history: what os.listdir returned to the invocation
  reads         \* history: the files the invocation read and encoded

vars ==
  << event, pc, url, format_type, temp_dir, filename, pending, response, fs,
     media, raised, calls, made, listing, reads >>

\* The invocations that exist: one under Spec, NumConc under SpecConc.
Procs == DOMAIN event

InitLocals(P) ==
  /\ pc = [i \in P |-> "start"]
  /\ url = [i \in P |-> None]
  /\ format_type = [i \in P |-> None]
  /\ temp_dir = [i \in P |-> NoName]
  /\ filename = [i \in P |-> ""]
  /\ pending = [i \in P |-> Return(NoResponse)]
  /\ response = [i \in P |-> NoResponse]
  /\ fs = [d \in Names |-> NoDir]
  /\ raised = [i \in P |-> <<>>]
  /\ calls = [i \in P |-> <<>>]
  /\ made = [i \in P |-> <<>>]
  /\ listing = [i \in P |-> <<>>]
  /\ reads = [i \in P |-> <<>>]

\* One invocation, given any event.
Init ==
  /\ event \in [{1} -> Events]
  /\ media \in FileData
  /\ InitLocals({1})

\* NumConc invocations running side by side.
InitConc ==
  /\ event \in [1..NumConc -> ConcEvents]
  /\ media = <<77, 97, 110, 33>>
  /\ InitLocals(1..NumConc)

\* The invocation ends: lambda_handler returns r.
Finish(i, r) ==
  /\ response' = [response EXCEPT ![i] = r]
  /\ pc' = [pc EXCEPT ![i] = "done"]

\* An exception reaches line 42 and the handler answers it.
Catch(i, e) ==
  /\ raised' = [raised EXCEPT ![i] = Append(@, e)]
  /\ Finish(i, ExceptHandler(e))

\* lambda_handler up to its return or its call of a path, lines 9-40.
Handle(i) ==
  /\ i \in Procs
  /\ pc[i] = "start"
  /\ LET o == Entry(event[i]) IN
     CASE o.kind = "return" ->
            /\ Finish(i, o.response)
            /\ UNCHANGED <<url, format_type, raised>>
       [] o.kind = "raise" ->
            /\ Catch(i, o.exc)
            /\ UNCHANGED <<url, format_type>>
       [] o.kind = "call" ->
            /\ url' = [url EXCEPT ![i] = o.url]
            /\ format_type' = [format_type EXCEPT ![i] = o.format_type]
            /\ pc' = [pc EXCEPT ![i] = o.target]
            /\ UNCHANGED <<response, raised>>
  /\ UNCHANGED <<event, media, listing,
                 temp_dir, filename, pending, fs, calls, made, reads>>

\* get_video_info, lines 49-70: the library raises, returns None or
\* returns the metadata.
ExtractInfo(i) ==
  /\ i \in Procs
  /\ pc[i] = "info"
  /\ calls' = [calls EXCEPT ![i] = Append(@, InfoCall(url[i]))]
  /\ \/ \E e \in YdlErrors : Catch(i, e)
     \/ Catch(i, "'NoneType' object has no attribute 'get'")
     \/ \E info \in InfoDicts :
          /\ Finish(i, InfoResponse(info))
          /\ UNCHANGED raised
  /\ UNCHANGED <<event, media, listing,
                 url, format_type, temp_dir, filename, pending, fs,
                 made, reads>>

\* Line 74: the temporary directory is created, or cannot be.
MkTemp(i) ==
  /\ i \in Procs
  /\ pc[i] = "download"
  /\ \/ /\ Catch(i, "[Errno 28] No space left on device")
        /\ UNCHANGED <<temp_dir, fs, made>>
     \/ \E d \in FreshNames(fs) :
          /\ fs' = [fs EXCEPT ![d] = Dir(i, {})]
          /\ temp_dir' = [temp_dir EXCEPT ![i] = d]
          /\ made' = [made EXCEPT ![i] = Append(@, d)]
          /\ pc' = [pc EXCEPT ![i] = "ydl"]
          /\ UNCHANGED <<response, raised>>
  /\ UNCHANGED <<event, media, listing,
                 url, format_type, filename, pending, calls, reads>>

\* Lines 95-96: the library downloads into outtmpl, or raises.
YdlDownload(i) ==
  /\ i \in Procs
  /\ pc[i] = "ydl"
  /\ calls' = [calls EXCEPT
       ![i] = Append(@, DownloadCall(url[i], temp_dir[i], format_type[i]))]
  /\ \/ \E e \in YdlErrors :
          /\ pending' = [pending EXCEPT ![i] = Raise(e)]
          /\ pc' = [pc EXCEPT ![i] = "exit"]
          /\ UNCHANGED fs
     \/ \E w \in Written(i, format_type[i], media) :
          /\ fs[temp_dir[i]].exists
          /\ fs' = [fs EXCEPT ![temp_dir[i]].files = WriteFiles(@, w)]
          /\ pc' = [pc EXCEPT ![i] = "listdir"]
          /\ UNCHANGED pending
  /\ UNCHANGED <<event, media, listing,
                 url, format_type, temp_dir, filename, response,
                 raised, made, reads>>

\* A faulty variant: the listing is never checked.
NoFileCreatedUnchecked(files) == FALSE

\* Line 100: not files.
NoFileCreated(files) == files = {}

\* Lines 99-103: the listing; empty raises, else files[0] is any entry
\* (files[0] of an empty list is an IndexError).
ListDir(i) ==
  /\ i \in Procs
  /\ pc[i] = "listdir"
  /\ IF ~fs[temp_dir[i]].exists THEN
       /\ pending' = [pending EXCEPT
            ![i] = Raise("[Errno 2] No such file or directory")]
       /\ pc' = [pc EXCEPT ![i] = "exit"]
       /\ UNCHANGED <<filename, listing>>
     ELSE
       LET files == { f.name : f \in fs[temp_dir[i]].files } IN
       /\ listing' = [listing EXCEPT ![i] = Append(@, files)]
       /\ IF NoFileCreated(files) THEN
            /\ pending' = [pending EXCEPT
                 ![i] = Raise("Download failed - no file created")]
            /\ pc' = [pc EXCEPT ![i] = "exit"]
            /\ UNCHANGED filename
          ELSE IF files = {} THEN
            /\ pending' = [pending EXCEPT
                 ![i] = Raise("list index out of range")]
            /\ pc' = [pc EXCEPT ![i] = "exit"]
            /\ UNCHANGED filename
          ELSE
            \E f \in files :
              /\ filename' = [filename EXCEPT ![i] = f]
              /\ pc' = [pc EXCEPT ![i] = "read"]
              /\ UNCHANGED pending
  /\ UNCHANGED <<event, media, url, format_type, temp_dir, response, fs,
                 raised, calls, made, reads>>

\* The file of that name in the directory, as a set of at most one file.
Lookup(i) ==
  { f \in fs[temp_dir[i]].files :
      fs[temp_dir[i]].exists /\ f.name = filename[i] }

\* Lines 106-118: the file is read and encoded and the response is built,
\* or the read fails.
ReadEncode(i) ==
  /\ i \in Procs
  /\ pc[i] = "read"
  /\ \/ /\ pending' = [pending EXCEPT
               ![i] = Raise(IF Lookup(i) = {}
                            THEN "[Errno 2] No such file or directory"
                            ELSE "[Errno 13] Permission denied")]
        /\ UNCHANGED reads
     \/ \E f \in Lookup(i) :
          /\ reads' = [reads EXCEPT ![i] = Append(@, f)]
          /\ pending' = [pending EXCEPT
               ![i] = Return(DownloadResponse(B64Encode(f.data), filename[i],
                                              format_type[i]))]
  /\ pc' = [pc EXCEPT ![i] = "exit"]
  /\ UNCHANGED <<event, media, listing,
                 url, format_type, temp_dir, filename, response, fs,
                 raised, calls, made>>

\* The with block of line 74 is left: the directory is removed, then
\* download_video returns, or its exception reaches line 42.
ExitDir(i) ==
  /\ i \in Procs
  /\ pc[i] = "exit"
  /\ fs' = RemoveTree(fs, temp_dir[i])
  /\ IF pending[i].kind = "return"
     THEN Finish(i, pending[i].response) /\ UNCHANGED raised
     ELSE Catch(i, pending[i].exc)
  /\ UNCHANGED <<event, media, listing,
                 url, format_type, temp_dir, filename, pending,
                 calls, made, reads>>

\* The next step of invocation i, whatever it is.
Step(i) ==
  \/ Handle(i)
  \/ ExtractInfo(i)
  \/ MkTemp(i)
  \/ YdlDownload(i)
  \/ ListDir(i)
  \/ ReadEncode(i)
  \/ ExitDir(i)

Next ==
  \E i \in 1..NumConc :
    \/ Handle(i)
    \/ ExtractInfo(i)
    \/ MkTemp(i)
    \/ YdlDownload(i)
    \/ ListDir(i)
    \/ ReadEncode(i)
    \/ ExitDir(i)

Spec == Init /\ [][Next]_vars

SpecConc == InitConc /\ [][Next]_vars

(***************************************************************************)
(* The request as the caller sent it, read off the event alone: the        *)
(* fields of the JSON object in a string body or, without a body, of the   *)
(* event.  A body that is not a JSON object carries no request.            *)
(***************************************************************************)
Done(i) == pc[i] = "done"

HasRequest(i) ==
  event[i].body.t = "json" => event[i].body.doc.kind \in {"object", "empty"}

Sent(i) ==
  IF event[i].body.t = "json" /\ event[i].body.doc.kind = "object"
  THEN event[i].body.doc.fields
  ELSE event[i].fields

SentAction(i) == IF Sent(i).action = Absent THEN Str("info") ELSE Sent(i).action

IsString(v) == v.t = "str"

\* The url is a string in which one of the two markers occurs.
MentionsYouTube(v) ==
  /\ IsString(v)
  /\ \E m \in {YOUTUBE_COM, YOUTU_BE} :
       \E k \in 1..Len(v.s) : \E n \in k..Len(v.s) : SubSeq(v.s, k, n) = m

ErrorOf(r, status, msg) ==
  /\ r.statusCode = status
  /\ r.headers = JsonHeaders
  /\ r.body = "{\"error\": \"" \o msg \o "\"}"

\* C1: a download that succeeds is labelled audio/mpeg when the format sent
\* is "mp3" and video/mp4 for every other format, an omitted one included.
C1_ContentTypeByFormat ==
  \A i \in Procs :
    (Done(i) /\ HasRequest(i) /\ SentAction(i) = Str("download")
       /\ response[i].statusCode = 200)
    => response[i].body =
         DownloadBody(B64Encode(reads[i][1].data), filename[i],
                      IF Sent(i).format = Str("mp3")
                      THEN "audio/mpeg" ELSE "video/mp4")

\* C2: once an invocation has returned, no directory it created exists,
\* whichever way download_video was left.
C2_TempDirRemoved ==
  \A i \in Procs :
    response[i] # NoResponse
    => /\ \A k \in 1..Len(made[i]) : ~fs[made[i][k]].exists
       /\ \A d \in Names : ~(fs[d].exists /\ fs[d].owner = i)

\* C2 witness: a download whose file could not be read has returned.
C2_Witness ==
  \E i \in Procs :
    /\ Done(i) /\ Len(made[i]) = 1 /\ Len(listing[i]) = 1
    /\ raised[i] = <<"[Errno 13] Permission denied">>
    /\ response[i].statusCode = 500

\* C3: an invocation that has not returned can go on; one that has,
\* returned one envelope with status 200, 400 or 500 and the JSON header,
\* and the status is 500 with body {error: str(e)} exactly when an
\* exception e was raised on the way.
C3_AlwaysAnEnvelope ==
  \A i \in Procs :
    /\ ~Done(i) => (response[i] = NoResponse /\ ENABLED Step(i))
    /\ Done(i) =>
         /\ ~ENABLED Step(i)
         /\ DOMAIN response[i] = {"statusCode", "headers", "body"}
         /\ response[i].statusCode \in {200, 400, 500}
         /\ DOMAIN response[i].headers = {"Content-Type"}
         /\ response[i].headers["Content-Type"] = "application/json"
         /\ Len(raised[i]) <= 1
         /\ response[i].statusCode = 500 <=> raised[i] # <<>>
         /\ raised[i] # <<>> => ErrorOf(response[i], 500, raised[i][1])

\* C3 witness: field extraction raised on a body that is a JSON array.
C3_Witness ==
  \E i \in Procs :
    /\ Done(i)
    /\ event[i].body = JsonText([kind |-> "array"])
    /\ raised[i] = <<"'list' object has no attribute 'get'">>
    /\ response[i].statusCode = 500

\* C4, as stated: an action outside {info, download} is answered 400
\* "Invalid action", whatever the url and the format are.
C4_InvalidActionWhateverUrl ==
  \A i \in Procs :
    (Done(i) /\ HasRequest(i)
       /\ SentAction(i) \notin {Str("info"), Str("download")})
    => ErrorOf(response[i], 400, "Invalid action")

\* C4, amended: an action outside {info, download} is answered 400
\* "Invalid action" when the url is a string holding one of the markers,
\* whatever the format is.
C4_InvalidActionGivenValidUrl ==
  \A i \in Procs :
    (Done(i) /\ HasRequest(i) /\ MentionsYouTube(Sent(i).url)
       /\ SentAction(i) \notin {Str("info"), Str("download")})
    => ErrorOf(response[i], 400, "Invalid action")

\* C4 witness: a null action with a valid url and the mp3 format.
C4_Witness ==
  \E i \in Procs :
    /\ Done(i) /\ HasRequest(i)
    /\ Sent(i).url = Str(YOUTUBE_COM)
    /\ Sent(i).action = None
    /\ Sent(i).format = Str("mp3")
    /\ ErrorOf(response[i], 400, "Invalid action")

\* C5: a request whose url key is absent, null or the empty string is
\* answered 400 "URL is required", from a string body and from the event
\* alike, whatever its action and format.
C5_UrlRequired ==
  \A i \in Procs :
    (Done(i) /\ HasRequest(i) /\ Sent(i).url \in {Absent, None, Str(<<>>)})
    => ErrorOf(response[i], 400, "URL is required")

\* C5 witness: a string body with an empty url, while the event itself
\* carries a complete download request.
C5_Witness ==
  \E i \in Procs :
    /\ Done(i)
    /\ event[i].fields = DownloadFields
    /\ event[i].body.t = "json" /\ event[i].body.doc.kind = "object"
    /\ Sent(i).url = Str(<<>>)
    /\ Sent(i).action = Str("download")
    /\ ErrorOf(response[i], 400, "URL is required")

\* C6: a non-empty url string holding neither marker is answered 400
\* "Invalid YouTube URL" whatever the action and format; a url string
\* holding a marker anywhere is never answered so.
C6_InvalidUrl ==
  \A i \in Procs :
    (Done(i) /\ HasRequest(i) /\ IsString(Sent(i).url)
       /\ Sent(i).url # Str(<<>>))
    => (ErrorOf(response[i], 400, "Invalid YouTube URL")
          <=> ~MentionsYouTube(Sent(i).url))

\* C6 witness: "youtube.be" with an unrecognized action is rejected.
C6_Witness ==
  \E i \in Procs :
    /\ Done(i) /\ HasRequest(i)
    /\ Sent(i).url = Str(<<"y", "o", "u", "t", "u", "b", "e", ".", "b", "e">>)
    /\ Sent(i).action = Str("delete")
    /\ ErrorOf(response[i], 400, "Invalid YouTube URL")

\* C7: a 400 response was preceded by no library call and no temporary
\* directory; and no invocation calls the library more than once.
C7_NoExternalCallBefore400 ==
  \A i \in Procs :
    /\ Len(calls[i]) <= 1
    /\ response[i].statusCode = 400
         => (calls[i] = <<>> /\ made[i] = <<>> /\ temp_dir[i] = NoName)

\* C7 witness: an unrecognized action was answered 400.
C7_Witness ==
  \E i \in Procs :
    /\ Done(i) /\ calls[i] = <<>>
    /\ ErrorOf(response[i], 400, "Invalid action")

\* C8: when the download call returned and the listing was empty, the
\* response is 500 "Download failed - no file created" and nothing was read.
C8_EmptyDirectory ==
  \A i \in Procs :
    (Done(i) /\ listing[i] = <<{}>>)
    => /\ ErrorOf(response[i], 500, "Download failed - no file created")
       /\ reads[i] = <<>>

\* C8 witness: the library was called once, did not raise, left nothing.
C8_Witness ==
  \E i \in Procs :
    /\ Done(i) /\ listing[i] = <<{}>>
    /\ Len(calls[i]) = 1 /\ calls[i][1].op = "download"
    /\ response[i].statusCode = 500

\* C9: an info request, explicit or by default, creates no directory and
\* no file and reads none; all it asks of the library is one
\* extract_info with download=False.
C9_InfoNeverDownloads ==
  \A i \in Procs :
    (HasRequest(i) /\ SentAction(i) = Str("info"))
    => /\ made[i] = <<>> /\ temp_dir[i] = NoName /\ reads[i] = <<>>
       /\ \A d \in Names : \A f \in fs[d].files : f.writer # i
       /\ Len(calls[i]) <= 1
       /\ \A k \in 1..Len(calls[i]) :
            calls[i][k].op = "extract_info" /\ ~calls[i][k].download
       /\ (Done(i) /\ MentionsYouTube(Sent(i).url)) => Len(calls[i]) = 1

\* C9 witness: a request without an action whose metadata probe raised.
C9_Witness ==
  \E i \in Procs :
    /\ Done(i) /\ HasRequest(i) /\ Sent(i).action = Absent
    /\ Len(calls[i]) = 1
    /\ raised[i] = <<"ERROR: Video unavailable">>

\* C10: concurrent downloads keep apart.  An invocation between the
\* creation of its directory and its removal has a directory of its own,
\* which exists and holds only files its own library call wrote, and every
\* file an invocation read and returned was written by its own call.
C10_Isolation ==
  \A i \in Procs :
    /\ \A k \in 1..Len(reads[i]) : reads[i][k].writer = i
    /\ pc[i] \in {"ydl", "listdir", "read", "exit"} =>
         /\ fs[temp_dir[i]].exists /\ fs[temp_dir[i]].owner = i
         /\ \A f \in fs[temp_dir[i]].files : f.writer = i
         /\ \A j \in Procs \ {i} :
              pc[j] \in {"ydl", "listdir", "read", "exit"}
              => temp_dir[j] # temp_dir[i]
    /\ (Done(i) /\ response[i].statusCode = 200 /\ reads[i] # <<>>) =>
         response[i].body =
           DownloadBody(B64Encode(IF filename[i] = "video.jpg"
                                  THEN <<255>> ELSE media),
                        filename[i], ContentType(format_type[i]))

\* C10 witness: one download has returned its file while another, which
\* ran alongside it in a directory of its own, is about to read.
C10_Witness ==
  \E i, j \in Procs :
    /\ i # j
    /\ Done(i) /\ response[i].statusCode = 200 /\ reads[i] # <<>>
    /\ pc[j] = "read" /\ temp_dir[j] # temp_dir[i]

====
